---- MODULE Spec2Model ----
(***************************************************************************)
(* Connection and packet-ordering core of the web SDK:                      *)
(*   WebSocketConnection  (src/packages/web-core/src/common/constants.ts)   *)
(*   ConnectionService    (src/packages/web-core/src/services/              *)
(*                         connection.service.ts)                           *)
(*                                                                          *)
(* The host is a JavaScript event loop.  A handler runs to completion; an   *)
(* await ends   the running job and its continuation is appended to the     *)
(* microtask queue (mq) once the awaited promise settles.  A promise of an  *)
(* external collaborator (token generator, scene loader, startSession,      *)
(* stopForInteraction) settles at an arbitrary later time: the continuation *)
(* waits in parked until   the matching *Resolved step moves it to mq.      *)
(* Socket events and timers are tasks: they run only when mq is empty.      *)
(* Calls of the public API may come from host code at any point between     *)
(* two jobs.                                                                *)
(***************************************************************************)
EXTENDS Integers, Sequences, FiniteSets, TLC

\* ------------------------------------------------------------------ bounds
MaxSockets == 2     \* sockets created in one run
MaxIid == 2         \* interaction ids in use

IIDs == 1..MaxIid

\* --------------------------------------------------------------- variables
VARIABLES
  autoReconnect,      \* config.connection.autoReconnect ?? true
  interruptions,      \* config.capabilities.interruptions
  disconnectTimeout,  \* config.connection.disconnectTimeout
  state,              \* ConnectionService.state
  session,            \* ConnectionService.session
  scene,              \* ConnectionService.scene (loaded or not)
  ttsPlaybackAction,  \* ConnectionService.ttsPlaybackAction
  cancelResponses,    \* ConnectionService.cancelResponses (ids marked true)
  packetsInProgress,  \* ConnectionService.packetsInProgress
  intervals,          \* ConnectionService.intervals (live resolvePacket polls)
  inworldPacket,      \* per ConnectionService.write call: its closure variable is set
  disconnectTimer,    \* the timer behind disconnectTimeoutId is pending
  ws,                 \* WebSocketConnection.ws (0 is null)
  socks,              \* every WebSocket created so far
  packetQueue,        \* WebSocketConnection.packetQueue
  readyTimers,        \* sockets whose setTimeout(.., 0) of onReady is pending
  mq,                 \* microtask queue
  parked,             \* continuations awaiting an external promise
  playerQueue,        \* packets held by the playback collaborator
  history,            \* packets handed to history.addOrUpdate, in order
  delivered,          \* packets handed to the host onMessage, in order
  wire,               \* frames written by ws.send, in order
  errors,             \* messages reported through the error handler
  obs,                \* observations of what the handlers did
  env,                \* what is left of the environment's budget
  probe,              \* a packet entity under construction: props and result
  saver               \* SessionStateService: its fields and its timers

vars == <<autoReconnect, interruptions, disconnectTimeout, state, session,
          scene, ttsPlaybackAction, cancelResponses, packetsInProgress,
          intervals, inworldPacket, disconnectTimer, ws, socks, packetQueue,
          readyTimers, mq, parked, playerQueue, history, delivered, wire, errors, obs,
          env, probe, saver>>

\* ----------------------------------------------------------------- packets
\* type is the discriminant, ctl the control sub-type, iid/uid the interaction
\* and utterance ids of packetId, uids the utterance list of a cancel-response,
\* player is routing.source.isPlayer, n the arrival number of an inbound frame.
NoPkt ==
  [type |-> "NONE", ctl |-> "NONE", iid |-> 0, uid |-> 0, uids |-> <<>>,
   player |-> FALSE, n |-> 0]

Pkt(t, c, i, u, pl, n) ==
  [type |-> t, ctl |-> c, iid |-> i, uid |-> u, uids |-> <<>>, player |-> pl,
   n |-> n]

isText(p) == p.type = "TEXT"
isAudio(p) == p.type = "AUDIO"
isSilence(p) == p.type = "SILENCE"
isControl(p) == p.type = "CONTROL"
isTrigger(p) == p.type = "TRIGGER"
isEmotion(p) == p.type = "EMOTION"
isCancelResponse(p) == p.type = "CANCEL_RESPONSE"

\* mutation of isInteractionEnd: the control sub-type is not looked at
isInteractionEnd_AnyControl(p) == isControl(p)

isInteractionEnd(p) == isControl(p) /\ p.ctl = "INTERACTION_END"

\* the packet variants and those that carry a payload
PacketTypes ==
  {"AUDIO", "TEXT", "TRIGGER", "EMOTION", "SILENCE", "CANCEL_RESPONSE",
   "CONTROL"}
PayloadTypes == {"AUDIO", "TEXT", "SILENCE", "CANCEL_RESPONSE"}

\* new InworldPacket(props): identity, routing, date and discriminant are
\* kept; which payload the packet holds is decided by the type alone
InworldPacket(props) ==
  [packetId |-> props.packetId, routing |-> props.routing,
   date |-> props.date, type |-> props.type,
   payload |-> IF props.type \in PayloadTypes THEN props.payload ELSE 0,
   ctl |-> IF props.type = "CONTROL" THEN props.control ELSE "NONE"]

\* EventFactory.cancelResponse(cancelResponses, characters)
cancelResponse(cr) ==
  [type |-> "CANCEL_RESPONSE", ctl |-> "NONE", iid |-> cr.iid, uid |-> 0,
   uids |-> cr.uids, player |-> TRUE, n |-> 0]

\* EventFactory.ttsPlaybackMute(true)
ttsPlaybackMute ==
  [type |-> "TTS_MUTE", ctl |-> "NONE", iid |-> 0, uid |-> 0, uids |-> <<>>,
   player |-> TRUE, n |-> 0]

\* QueueItem: the producer with its hooks.  hook names the closure pair the
\* item carries: "user" (ConnectionService.write), "replay"
\* (getPacketsToSentOnOpen, afterWriting only), "none" (no hooks).
\* wid identifies the ConnectionService.write call; queued records that the
\* item went through packetQueue.push, batch the socket whose ready signal
\* took the item out of the queue (0: written directly).
QueueItem(p, h, w) ==
  [pkt |-> p, hook |-> h, wid |-> w, queued |-> FALSE, batch |-> 0]
NoItem == QueueItem(NoPkt, "none", 0)

\* A continuation of an async function after an await: k names the code that
\* runs next, then the awaiting callers to resume after it (innermost first);
\* item, pkt, packets and sid are the locals the code still needs and res the
\* value the awaited promise settled with; err tells that it was rejected.
Cont(k) ==
  [k |-> k, then |-> <<>>, item |-> NoItem, pkt |-> NoPkt, res |-> <<>>,
   packets |-> <<>>, sid |-> 0, err |-> FALSE]

\* --------------------------------------------------------- state as a record
Cur ==
  [state |-> state, session |-> session, scene |-> scene,
   ttsPlaybackAction |-> ttsPlaybackAction,
   cancelResponses |-> cancelResponses,
   packetsInProgress |-> packetsInProgress, intervals |-> intervals,
   inworldPacket |-> inworldPacket,
   disconnectTimer |-> disconnectTimer, ws |-> ws, socks |-> socks,
   packetQueue |-> packetQueue, readyTimers |-> readyTimers, mq |-> mq,
   parked |-> parked, playerQueue |-> playerQueue, history |-> history,
   delivered |-> delivered, wire |-> wire, errors |-> errors, obs |-> obs,
   saver |-> saver]

Commit(s) ==
  /\ state' = s.state
  /\ session' = s.session
  /\ scene' = s.scene
  /\ ttsPlaybackAction' = s.ttsPlaybackAction
  /\ cancelResponses' = s.cancelResponses
  /\ packetsInProgress' = s.packetsInProgress
  /\ intervals' = s.intervals
  /\ inworldPacket' = s.inworldPacket
  /\ disconnectTimer' = s.disconnectTimer
  /\ ws' = s.ws
  /\ socks' = s.socks
  /\ packetQueue' = s.packetQueue
  /\ readyTimers' = s.readyTimers
  /\ mq' = s.mq
  /\ parked' = s.parked
  /\ playerQueue' = s.playerQueue
  /\ history' = s.history
  /\ delivered' = s.delivered
  /\ wire' = s.wire
  /\ errors' = s.errors
  /\ obs' = s.obs
  /\ saver' = s.saver
  /\ UNCHANGED <<autoReconnect, interruptions, disconnectTimeout, probe>>

\* the awaited promise is settled: its reaction job joins the microtasks
Enq(s, c) == [s EXCEPT !.mq = Append(@, c)]

\* an async function returns: the caller awaiting it, if any, resumes
Resume(s, c) ==
  IF c.then = <<>> THEN s
  ELSE Enq(s, [c EXCEPT !.k = Head(c.then), !.then = Tail(c.then), !.res = <<>>])

\* the awaited promise belongs to an external collaborator
Park(s, c) == [s EXCEPT !.parked = Append(@, c)]

\* ------------------------------------------------------- WebSocketConnection
\* listeners registered by createWebSocket: <<event, function reference>>.
\* onReady, onMessage and onError are registered as fresh bound copies.
CreatedListeners ==
  {<<"open", "onReady.bind">>, <<"message", "onMessage.bind">>,
   <<"error", "onError.bind">>, <<"close", "connectionProps.onDisconnect">>}

\* the references close() hands to removeEventListener
RemovedListeners ==
  {<<"error", "onError">>, <<"close", "connectionProps.onDisconnect">>,
   <<"open", "onReady">>, <<"message", "onMessage">>}

HasListener(s, w, ev) == \E l \in s.socks[w].ls : l[1] = ev

\* WebSocketConnection.isActive
wsIsActive(s) == s.ws # 0 /\ s.socks[s.ws].rs = "OPEN"

\* WebSocketConnection.createWebSocket
createWebSocket(s) ==
  [s EXCEPT !.socks = Append(@, [rs |-> "CONNECTING", ls |-> CreatedListeners]),
            !.obs.disc = Append(@, 0)]

\* WebSocketConnection.open
connectionOpen(s, packets) ==
  LET s1 == IF Len(packets) > 0
              THEN [s EXCEPT !.packetQueue = packets \o @] ELSE s
      s2 == createWebSocket(s1)
  IN [s2 EXCEPT !.ws = Len(s2.socks)]

\* ---------------------------------------------------------- ConnectionService
\* ConnectionService.isActive
isActive(s) == s.state = "ACTIVE"

\* ConnectionService.cancelScheduler
cancelScheduler(s) ==
  IF s.disconnectTimer THEN [s EXCEPT !.disconnectTimer = FALSE] ELSE s

\* ConnectionService.scheduleDisconnect
scheduleDisconnect(s) ==
  IF disconnectTimeout # 0
    THEN [cancelScheduler(s) EXCEPT !.disconnectTimer = TRUE]
    ELSE s

\* observation: the inbound handler of arrival number n has had an effect
Effect(s, n) ==
  IF n = 0 \/ (s.obs.effects # <<>> /\ s.obs.effects[Len(s.obs.effects)] = n)
    THEN s
    ELSE [s EXCEPT !.obs.effects = Append(@, n)]

\* ConnectionService.addPacketToHistory
addPacketToHistory(s, p) == [s EXCEPT !.history = Append(@, p)]

\* entries of packetsInProgress: interaction id -> producer
PipSet(f, i, p) == [j \in DOMAIN f \cup {i} |-> IF j = i THEN p ELSE f[j]]
PipDel(f, i) == [j \in DOMAIN f \ {i} |-> f[j]]

\* Object.keys(notAppliedPackets), as a sequence
RECURSIVE Keys(_)
Keys(D) ==
  IF D = {} THEN <<>>
  ELSE LET m == CHOOSE x \in D : \A y \in D : x <= y
       IN <<m>> \o Keys(D \ {m})

\* ConnectionService.getPacketsToSentOnOpen: [st, packets]
getPacketsToSentOnOpen(s) ==
  LET mute == IF autoReconnect /\ s.ttsPlaybackAction = "MUTE"
                THEN <<QueueItem(ttsPlaybackMute, "none", 0)>> ELSE <<>>
  IN IF s.state = "RECONNECTING"
       THEN LET notApplied == s.packetsInProgress
                ks == Keys(DOMAIN notApplied)
            IN [st |-> [s EXCEPT !.packetsInProgress = <<>>],
                packets |-> mute \o
                  [i \in 1..Len(ks) |-> QueueItem(notApplied[ks[i]], "replay", 0)]]
       ELSE [st |-> s, packets |-> mute]

\* SessionToken.isExpired
isExpired(tok) == tok.expired

NoSession == [token |-> 0, sessionId |-> 0, expired |-> FALSE]

\* ConnectionService.ensureSessionToken, up to its await; c is the caller
ensureSessionToken(s, beforeLoading, c) ==
  IF s.session = NoSession \/ isExpired(s.session)
    THEN Park(IF beforeLoading THEN [s EXCEPT !.state = "LOADING"] ELSE s,
              [c EXCEPT !.k = "est2", !.sid = s.session.sessionId])
    ELSE Resume(s, c)

\* ConnectionService.ensureSessionToken after generateSessionToken():
\* c.res holds the generated token
ensureSessionToken2(s, c) ==
  LET generated == c.res[1]
      sessionToken == IF c.sid # 0
                        THEN [s.session EXCEPT !.sessionId = c.sid]
                        ELSE generated
  IN Resume([s EXCEPT !.session = sessionToken,
                      !.obs.refresh = @ \cup {[gen |-> generated,
                                               prev |-> c.sid,
                                               held |-> sessionToken]}], c)

\* ConnectionService.loadScene: the state test that ends the try block
loadSceneTail(s, c) ==
  Resume(IF s.state \in {"LOADING", "INACTIVE"}
           THEN [s EXCEPT !.state = "LOADED"] ELSE s, c)

\* ConnectionService.loadScene, up to its first await; c is the caller
loadScene(s, c) ==
  IF s.state = "LOADING" THEN Resume(s, c)
  ELSE ensureSessionToken(s, TRUE, [c EXCEPT !.then = <<"ls2">> \o @])

\* ConnectionService.loadScene after ensureSessionToken
loadScene2(s, c) ==
  IF ~s.scene THEN Park(s, [c EXCEPT !.k = "ls3"]) ELSE loadSceneTail(s, c)

\* ConnectionService.loadScene after engineService.loadScene
loadScene3(s, c) == loadSceneTail([s EXCEPT !.scene = TRUE], c)

\* ConnectionService.open, up to its first await
open(s) ==
  LET g == getPacketsToSentOnOpen(s)
  IN loadScene(g.st, [Cont("open") EXCEPT !.then = <<"open2">>,
                                          !.packets = g.packets])

\* ConnectionService.open after loadScene
open2(s, c) ==
  IF s.state = "LOADED"
    THEN Enq(connectionOpen([s EXCEPT !.state = "ACTIVATING"], c.packets),
             [c EXCEPT !.k = "open3"])
    ELSE s

\* ConnectionService.open after connection.open
open3(s, c) == scheduleDisconnect(s)

\* ConnectionService.loadCharacters
loadCharacters(s) == loadScene(s, Cont("lc"))

\* ConnectionService.getSessionState, up to its await
getSessionState(s) ==
  ensureSessionToken(s, FALSE, [Cont("gss") EXCEPT !.then = <<"gss2">>])

\* ConnectionService.getSessionState after ensureSessionToken: the request is
\* handed to the state serialization collaborator, whose promise is the one
\* the caller gets
getSessionState2(s, c) ==
  IF c.then = <<>> THEN s
  ELSE Park(s, [c EXCEPT !.k = Head(c.then), !.then = Tail(c.then)])

\* ------------------------------------------------------ SessionStateService
DEFAULT_SESSION_STATE_MAX_ATTEMPTS == 3

\* ConnectionService.hasPacketsInProgress
hasPacketsInProgress(s) == DOMAIN s.packetsInProgress # {}

\* lastItem?.type === CHAT_HISTORY_TYPE.INTERACTION_END
lastIsInteractionEnd(s) ==
  s.history # <<>> /\ isInteractionEnd(s.history[Len(s.history)])

\* the persisted snapshot's creationTime is later than lastItem.date
savedIsNewer(s) ==
  s.saver.saved.valid /\ s.saver.saved.created >= Len(s.history)

\* SessionStateService.clearInterval: stops the timer intervalId names
clearInterval(s) ==
  [s EXCEPT !.saver.retries =
              [k \in DOMAIN @ |->
                 [@[k] EXCEPT !.live = @ /\ k # s.saver.intervalId]],
            !.saver.intervalId = 0]

\* SessionStateService.saveSessionState, called by retry timer t, up to the
\* await inside getSessionState
saveSessionState(s, t) ==
  ensureSessionToken(
    [clearInterval(s) EXCEPT !.saver.retries[t].saves = @ + 1],
    FALSE, [Cont("gss") EXCEPT !.then = <<"gss2", "save2">>])

\* SessionStateService.saveSessionState: the then and finally callbacks;
\* c.res holds the snapshot, or nothing when getSessionState caught an error
saveSessionState2(s, c) ==
  [s EXCEPT !.saver.saved = IF c.res # <<>> THEN c.res[1]
                           ELSE [valid |-> FALSE, created |-> 0],
            !.saver.writes = @ + 1,
            !.saver.isSaving = FALSE]

\* SessionStateService.tryToSaveState: the retry timer it starts is not
\* stored in intervalId
tryToSaveState(s) ==
  IF s.saver.isSaving THEN s
  ELSE IF s.history = <<>> \/ savedIsNewer(s) THEN s
  ELSE [s EXCEPT !.saver.isSaving = TRUE,
                 !.saver.retries =
                   Append(@, [attempts |-> 0, saves |-> 0, live |-> TRUE])]

\* SessionStateService.onWindowBlur
onWindowBlur(s) == tryToSaveState([s EXCEPT !.saver.isBlurred = TRUE])

\* SessionStateService.onWindowFocus: starts one more recurring timer, whose
\* callback does not test isBlurred
onWindowFocus(s) ==
  [s EXCEPT !.saver.isBlurred = FALSE, !.saver.recurring = Append(@, FALSE)]

\* the functions destroy() passes to removeEventListener: each bind() makes a
\* new function
UnboundWindowListeners ==
  {<<"blur", "onWindowBlur.bind#2">>, <<"focus", "onWindowFocus.bind#2">>}

\* SessionStateService.destroy
destroy(s) ==
  [clearInterval(s) EXCEPT !.saver.listeners = @ \ UnboundWindowListeners]

\* the callback of the retry timer t of tryToSaveState
retryAttempt(s, t) ==
  LET s1 == [s EXCEPT !.saver.retries[t].attempts = @ + 1]
  IN IF s1.saver.retries[t].attempts >= DEFAULT_SESSION_STATE_MAX_ATTEMPTS
       THEN saveSessionState(s1, t)
     ELSE IF hasPacketsInProgress(s1) THEN s1
     ELSE IF lastIsInteractionEnd(s1) THEN saveSessionState(s1, t)
     ELSE s1

\* the two messages the error handler treats as an expired credential
IsAuthError(message) == message \in {"Session s expired or invalid", "invalid JWT token"}

\* observation: what an error handler invocation found and left
Snapshot(s) == [state |-> s.state, session |-> s.session, scene |-> s.scene]

\* open() calls that have not reached the test after `await loadScene()`
RECURSIVE OpenCalls(_)
OpenCalls(q) ==
  IF q = <<>> THEN 0
  ELSE (IF Head(q).k = "open2"
           \/ \E a \in 1..Len(Head(q).then) : Head(q).then[a] = "open2"
          THEN 1 ELSE 0) + OpenCalls(Tail(q))

Handled(s, message, mid, r) ==
  [r EXCEPT !.obs.handled = @ \cup
     {[msg |-> message,
       kept |-> Snapshot(r) = Snapshot(s),
       cleared |-> /\ Snapshot(mid) = [state |-> "INACTIVE",
                                       session |-> NoSession, scene |-> FALSE]
                   /\ r.session = NoSession
                   /\ ~r.scene,
       opened |-> OpenCalls(r.mq \o r.parked) - OpenCalls(s.mq \o s.parked)]}]

\* mutation of onError: the autoReconnect test is dropped
onError_AlwaysReconnect(s, message) ==
  LET s1 == [s EXCEPT !.errors = @ \cup {message}]
  IN IF IsAuthError(message)
       THEN LET s2 == [s1 EXCEPT !.session = NoSession, !.scene = FALSE,
                                 !.state = "INACTIVE"]
                s3 == [s2 EXCEPT !.obs.authSeen = TRUE,
                                 !.obs.authPip = s.packetsInProgress,
                                 !.obs.authSent =
                                   getPacketsToSentOnOpen(s2).packets]
            IN Handled(s, message, s2, open(s3))
       ELSE Handled(s, message, s1, s1)

\* ConnectionService.onError (initializeHandlers)
onError(s, message) ==
  LET s1 == [s EXCEPT !.errors = @ \cup {message}]
  IN IF IsAuthError(message) /\ autoReconnect
       THEN LET s2 == [s1 EXCEPT !.session = NoSession, !.scene = FALSE,
                                 !.state = "INACTIVE"]
                s3 == [s2 EXCEPT !.obs.authSeen = TRUE,
                                 !.obs.authPip = s.packetsInProgress,
                                 !.obs.authSent =
                                   getPacketsToSentOnOpen(s2).packets]
            IN Handled(s, message, s2, open(s3))
       ELSE Handled(s, message, s1, s1)

\* ConnectionService.onDisconnect (initializeHandlers), called for socket w
onDisconnect(s, w) ==
  [s EXCEPT !.state = "INACTIVE", !.obs.disc[w] = @ + 1]

\* interruptByPacket without the test of the interruptions capability
interruptByPacket_NoCapabilityTest(s, p, c) ==
  Park(s, [c EXCEPT !.k = "ib2", !.pkt = p])

\* ConnectionService.interruptByPacket, up to its await; c is the caller
interruptByPacket(s, p, c) ==
  IF ~interruptions THEN Resume(s, [c EXCEPT !.pkt = p])
  ELSE Park(s, [c EXCEPT !.k = "ib2", !.pkt = p])

\* the body of beforeWriting that follows the interruption
beforeWriting2(s, item) ==
  IF isText(item.pkt) \/ isAudio(item.pkt)
    THEN [s EXCEPT !.packetsInProgress = PipSet(@, item.pkt.iid, item.pkt),
                   !.obs.ended = @ \ {item.pkt.iid}]
    ELSE s

\* WebSocketConnection.write on an OPEN socket, up to `await beforeWriting`
writeActive(s, item) ==
  LET w2 == [Cont("w2") EXCEPT !.item = item]
  IN IF item.hook = "user"
       THEN IF isText(item.pkt)
              THEN interruptByPacket(s, item.pkt,
                     [w2 EXCEPT !.k = "bw", !.then = <<"bw2">>])
              ELSE Enq(beforeWriting2(s, item), w2)
       ELSE Enq(s, w2)

\* WebSocketConnection.write
connectionWrite(s, item) ==
  IF wsIsActive(s) THEN writeActive(s, item)
  ELSE [s EXCEPT !.packetQueue = Append(@, [item EXCEPT !.queued = TRUE])]

\* afterWriting of the item
afterWriting(s, item) ==
  IF item.hook = "user"
    THEN addPacketToHistory(
           scheduleDisconnect([s EXCEPT !.inworldPacket[item.wid] = TRUE]),
           item.pkt)
  ELSE IF item.hook = "replay" /\ (isText(item.pkt) \/ isAudio(item.pkt))
    THEN [s EXCEPT !.packetsInProgress = PipSet(@, item.pkt.iid, item.pkt)]
  ELSE s

\* WebSocketConnection.write after `await beforeWriting`: ws.send throws on a
\* null or CONNECTING socket, transmits on an OPEN one and drops the frame
\* silently on a closed one
connectionWrite2(s, item) ==
  IF s.ws = 0 \/ s.socks[s.ws].rs = "CONNECTING"
    THEN [s EXCEPT !.obs.unhandled = @ \cup {"ws.send"}]
  ELSE IF s.socks[s.ws].rs = "OPEN"
    THEN afterWriting(
           [s EXCEPT !.wire = Append(@, [sock |-> s.ws, pkt |-> item.pkt,
                                        wid |-> item.wid,
                                        queued |-> item.queued,
                                        batch |-> item.batch,
                                        late |-> item.wid \in s.obs.stale])],
           item)
  ELSE afterWriting(s, item)

\* ConnectionService.write
write(s, p) ==
  LET wid == Len(s.inworldPacket) + 1
      s1 == [s EXCEPT !.inworldPacket = Append(@, FALSE)]
      s2 == connectionWrite(s1, QueueItem(p, "user", wid))
      s3 == IF ~isActive(s2) THEN open(s2) ELSE s2
  IN [s3 EXCEPT !.intervals = @ \cup {wid}]

\* mutation of send: the inactive connection is not refused
send_NeverRefused(s, p) ==
  LET s1 == cancelScheduler(s)
  IN write([s1 EXCEPT !.obs.activeSend =
              IF isActive(s1) THEN @ \cup {Len(s1.inworldPacket) + 1}
              ELSE @], p)

\* ConnectionService.send
send(s, p) ==
  LET s0 == IF p.type = "CANCEL_RESPONSE"
              THEN [s EXCEPT !.obs.cancelSends =
                      Append(@, [iid |-> p.iid, uids |-> p.uids])]
              ELSE s
      s1 == cancelScheduler(s0)
  IN IF ~isActive(s1) /\ ~autoReconnect
       THEN onError(s1, "Unable to send data due inactive connection")
       ELSE write([s1 EXCEPT !.obs.activeSend =
                     IF isActive(s1) THEN @ \cup {Len(s1.inworldPacket) + 1}
                     ELSE @], p)

\* mutation of sendCancelResponses: the marker is not set
sendCancelResponses_NoMarker(s, cr) ==
  IF cr.iid # 0
    THEN [send(s, cancelResponse(cr)) EXCEPT
            !.obs.interruptions = Append(@, cr)]
    ELSE s

\* ConnectionService.sendCancelResponses
sendCancelResponses(s, cr) ==
  IF cr.iid # 0
    THEN [send(s, cancelResponse(cr)) EXCEPT
            !.cancelResponses = @ \cup {cr.iid},
            !.obs.interruptions = Append(@, cr)]
    ELSE s

\* utterance ids of the stopped packets
RECURSIVE UtteranceIds(_)
UtteranceIds(ps) ==
  IF ps = <<>> THEN <<>> ELSE <<Head(ps).uid>> \o UtteranceIds(Tail(ps))

\* ConnectionService.interruptByPacket after stopForInteraction: c.res holds
\* the stopped packets
interruptByPacket2(s, c) ==
  LET packets == c.res
      s0 == IF c.then = <<"om2">> /\ Len(packets) > 0
              THEN Effect(s, c.pkt.n) ELSE s
      s1 == IF Len(packets) > 0
              THEN sendCancelResponses(
                     [s0 EXCEPT !.obs.stopped =
                        IF c.item.wid # 0
                          THEN @ \cup {<<c.item.wid, packets[1].iid>>} ELSE @],
                     [iid |-> packets[1].iid, uids |-> UtteranceIds(packets)])
              ELSE s
      s2 == IF c.then = <<>>
              THEN [s1 EXCEPT !.obs.interrupted = @ \cup
                      {[res |-> packets,
                        sends |-> SubSeq(s1.obs.cancelSends,
                                         Len(s.obs.cancelSends) + 1,
                                         Len(s1.obs.cancelSends)),
                        notes |-> SubSeq(s1.obs.interruptions,
                                         Len(s.obs.interruptions) + 1,
                                         Len(s1.obs.interruptions)),
                        before |-> s.cancelResponses,
                        after |-> s1.cancelResponses]}]
              ELSE s1
  IN Resume(s2, c)

\* onMessageTail without the test of the cancel marker
onMessageTail_IgnoreMarker(s, p) ==
  LET s1 == IF isAudio(p) \/ isSilence(p)
              THEN [s EXCEPT !.playerQueue = Append(@, p)] ELSE s
      s2 == IF isInteractionEnd(p)
              THEN [s1 EXCEPT !.cancelResponses = @ \ {p.iid},
                              !.obs.ended = @ \cup {p.iid}]
              ELSE s1
      s3 == addPacketToHistory(s2, p)
  IN Effect([s3 EXCEPT !.delivered = Append(@, p)], p.n)

\* ConnectionService.onMessage from "Play audio or silence" to its end
onMessageTail(s, p) ==
  LET s1 == IF (isAudio(p) \/ isSilence(p)) /\ p.iid \notin s.cancelResponses
              THEN [s EXCEPT !.playerQueue = Append(@, p)] ELSE s
      s2 == IF isInteractionEnd(p)
              THEN [s1 EXCEPT !.cancelResponses = @ \ {p.iid},
                              !.obs.ended = @ \cup {p.iid}]
              ELSE s1
      s3 == addPacketToHistory(s2, p)
  IN Effect([s3 EXCEPT !.delivered = Append(@, p)], p.n)

\* onMessage without the return that ends the cancelled-text branch
onMessage_FallThrough(s, p) ==
  LET s1 == IF isInteractionEnd(p)
              THEN [s EXCEPT !.packetsInProgress = PipDel(@, p.iid)] ELSE s
  IN IF isText(p) /\ ~p.player /\ p.iid \in s1.cancelResponses
       THEN onMessageTail(
              sendCancelResponses(Effect(s1, p.n),
                                  [iid |-> p.iid, uids |-> <<p.uid>>]), p)
     ELSE IF isText(p) /\ p.player
       THEN interruptByPacket(s1, p, [Cont("om") EXCEPT !.then = <<"om2">>])
     ELSE onMessageTail(s1, p)

\* ConnectionService.onMessage (initializeHandlers), up to its await
onMessage(s, p) ==
  LET s1 == IF isInteractionEnd(p)
              THEN [s EXCEPT !.packetsInProgress = PipDel(@, p.iid)] ELSE s
  IN IF isText(p) /\ ~p.player /\ p.iid \in s1.cancelResponses
       THEN sendCancelResponses(Effect(s1, p.n),
                                [iid |-> p.iid, uids |-> <<p.uid>>])
     ELSE IF isText(p) /\ p.player
       THEN interruptByPacket(s1, p, [Cont("om") EXCEPT !.then = <<"om2">>])
     ELSE onMessageTail(s1, p)

\* ConnectionService.onReady (initializeHandlers), up to `await startSession`
onReady(s) == Park(s, Cont("or2"))

\* ConnectionService.onReady after startSession
onReady2(s) == [s EXCEPT !.state = "ACTIVE"]

\* WebSocketConnection.close
connectionClose(s) ==
  LET w == s.ws
      s1 == IF w # 0
              THEN [s EXCEPT !.socks[w].ls = @ \ RemovedListeners,
                             !.obs.detached = @ \cup {w}]
              ELSE s
      s2 == IF wsIsActive(s1)
              THEN onDisconnect([s1 EXCEPT !.socks[w].rs = "CLOSED"], w)
              ELSE s1
  IN [s2 EXCEPT !.ws = 0, !.packetQueue = <<>>]

\* ConnectionService.clearQueue
clearQueue(s) == [s EXCEPT !.intervals = {}]

\* ConnectionService.close
close(s) ==
  LET s1 == [cancelScheduler(s) EXCEPT !.state = "INACTIVE"]
      s2 == clearQueue(connectionClose(s1))
  IN [s2 EXCEPT !.obs.stale = 1..Len(s2.inworldPacket)]

\* ConnectionService.interrupt
interrupt(s) ==
  IF s.playerQueue # <<>>
    THEN interruptByPacket(s, Head(s.playerQueue), Cont("int"))
    ELSE s

\* mutation of openManually: the state test is dropped
openManually_AnyState(s) ==
  IF autoReconnect
    THEN onError(s, "Impossible to open connection manually with autoReconnect enabled")
  ELSE open(s)

\* ConnectionService.openManually
openManually(s) ==
  IF autoReconnect
    THEN onError(s, "Impossible to open connection manually with autoReconnect enabled")
  ELSE IF s.state # "INACTIVE"
    THEN onError(s, "Connection is already open")
  ELSE open(s)

\* WebSocketConnection.onReady, the body of its setTimeout callback
RECURSIVE forEachWrite(_, _)
forEachWrite(s, items) ==
  IF items = <<>> THEN s
  ELSE forEachWrite(connectionWrite(s, Head(items)), Tail(items))

connectionOnReady(s, w) ==
  LET flushed == IF wsIsActive(s)
                   THEN {s.packetQueue[i].wid : i \in 1..Len(s.packetQueue)} \ {0}
                   ELSE {}
      items == [i \in 1..Len(s.packetQueue) |->
                  [s.packetQueue[i] EXCEPT !.batch = w]]
  IN onReady([forEachWrite(s, items) EXCEPT
                !.packetQueue = <<>>, !.obs.flushed = @ \cup flushed])

\* the awaited promise was rejected: the await throws.  loadScene and
\* getSessionState catch and report; interrupt() has no handler, so its own
\* promise rejects; the promises of WebSocketConnection.write and of the
\* inbound handler are held by nobody, so the failure is dropped.
Thrown(s, c) ==
  LET c0 == [c EXCEPT !.err = FALSE]
  IN CASE c.k = "est2" /\ c.then # <<>> /\ Head(c.then) = "ls2" ->
            Resume(onError(s, "generateSessionToken failed"),
                   [c0 EXCEPT !.then = Tail(@)])
       [] c.k = "est2" /\ ~(c.then # <<>> /\ Head(c.then) = "ls2") ->
            Resume(onError(s, "generateSessionToken failed"),
                   [c0 EXCEPT !.then = Tail(@)])
       [] c.k = "ls3" -> Resume(onError(s, "loadScene failed"), c0)
       [] c.k = "ib2" /\ c.then = <<>> ->
            [s EXCEPT !.obs.rejected = @ \cup {"interrupt"}]
       [] c.k = "ib2" /\ c.then # <<>> ->
            [s EXCEPT !.obs.dropped = @ \cup {Head(c.then)}]
       [] OTHER -> s

\* one job of the microtask queue
RunJob(s, c) ==
  CASE c.err -> Thrown(s, c)
    [] c.k = "ls2" -> loadScene2(s, c)
    [] c.k = "open2" -> open2(s, c)
    [] c.k = "open3" -> open3(s, c)
    [] c.k = "est2" -> ensureSessionToken2(s, c)
    [] c.k = "ls3" -> loadScene3(s, c)
    [] c.k = "ib2" -> interruptByPacket2(s, c)
    [] c.k = "bw2" -> Enq(beforeWriting2(s, c.item), [c EXCEPT !.k = "w2"])
    [] c.k = "w2" -> connectionWrite2(s, c.item)
    [] c.k = "om2" -> onMessageTail(s, c.pkt)
    [] c.k = "or2" -> onReady2(s)
    [] c.k = "gss2" -> getSessionState2(s, c)
    [] c.k = "save2" -> saveSessionState2(s, c)
    [] OTHER -> s

\* --------------------------------------------------------------------- Init
\* The state after `new ConnectionService(props)`; cfg is the configuration
\* the host passes and cap how many inputs of each kind the environment
\* may still make.
NoProbe == [built |-> FALSE, props |-> <<>>, packet |-> <<>>]

\* The state after new SessionStateService(connection): the recurring timer
\* of the constructor runs (it tests isBlurred), nothing is persisted.
\* recurring holds one entry per recurring timer: whether its callback tests
\* isBlurred; retries one entry per retry timer: the attempts of its closure
\* and how often it has called saveSessionState; saved is the persisted
\* snapshot: created tells how long history was when the snapshot was made.
\* listeners holds the window listeners as <<event, function reference>> and
\* window whether the page has the focus.
WindowListeners ==
  {<<"blur", "onWindowBlur.bind">>, <<"focus", "onWindowFocus.bind">>}

NoSaver ==
  [isSaving |-> FALSE, isBlurred |-> FALSE, intervalId |-> 0,
   recurring |-> <<TRUE>>, retries |-> <<>>,
   saved |-> [valid |-> FALSE, created |-> 0], writes |-> 0,
   listeners |-> WindowListeners, window |-> "focused"]

InitWith(cfgs, cap) ==
  /\ \E c \in cfgs :
       /\ autoReconnect = c[1]
       /\ interruptions = c[2]
       /\ disconnectTimeout = c[3]
  /\ state = "INACTIVE"
  /\ session = NoSession
  /\ scene = FALSE
  /\ ttsPlaybackAction = "UNKNOWN"
  /\ cancelResponses = {}
  /\ packetsInProgress = <<>>
  /\ intervals = {}
  /\ inworldPacket = <<>>
  /\ disconnectTimer = FALSE
  /\ ws = 0
  /\ socks = <<>>
  /\ packetQueue = <<>>
  /\ readyTimers = {}
  /\ mq = <<>>
  /\ parked = <<>>
  /\ playerQueue = <<>>
  /\ history = <<>>
  /\ delivered = <<>>
  /\ wire = <<>>
  /\ errors = {}
  /\ obs = [disc |-> <<>>, detached |-> {}, late |-> {}, marked |-> {},
            interruptions |-> <<>>, effects |-> <<>>, ended |-> {},
            authSeen |-> FALSE,
            authPip |-> <<>>, authSent |-> <<>>, stale |-> {}, stopped |-> {},
            activeSend |-> {}, resolved |-> {}, unhandled |-> {}, flushed |-> {},
            rejected |-> {}, dropped |-> {}, cancelSends |-> <<>>, interrupted |-> {},
            refresh |-> {}, handled |-> {}, skipped |-> {},
            inbound |-> 0, tokens |-> 0]
  /\ env = cap
  /\ probe = NoProbe
  /\ saver = NoSaver

NoCap ==
  [sends |-> 0, inbound |-> 0, closes |-> 0, opens |-> 0, interrupts |-> 0,
   errors |-> 0, tts |-> 0, drops |-> 0, expiries |-> 0, loads |-> 0,
   states |-> 0, failures |-> 0, periods |-> 0, polls |-> 0,
   blurs |-> 0, destroys |-> 0]

CanSpend(kind) == env[kind] > 0
Spend(kind) == env' = [env EXCEPT ![kind] = @ - 1]

\* ------------------------------------------------- calls of the public API
SendTypes == {"TEXT", "AUDIO", "TRIGGER"}

UserSend(t, i) ==
  /\ CanSpend("sends")
  /\ Commit(send([Cur EXCEPT !.obs.ended =
                    IF t \in {"TEXT", "AUDIO"} THEN @ \ {i} ELSE @],
                 Pkt(t, "NONE", i, 0, TRUE, 0)))
  /\ Spend("sends")

UserClose ==
  /\ CanSpend("closes")
  /\ Commit(close(Cur))
  /\ Spend("closes")

UserOpen ==
  /\ CanSpend("opens")
  /\ Commit(open(Cur))
  /\ Spend("opens")

UserOpenManually ==
  /\ CanSpend("opens")
  /\ Commit(openManually(Cur))
  /\ Spend("opens")

UserLoadCharacters ==
  /\ CanSpend("loads")
  /\ Commit(loadCharacters(Cur))
  /\ Spend("loads")

UserGetSessionState ==
  /\ CanSpend("states")
  /\ Commit(getSessionState(Cur))
  /\ Spend("states")

UserInterrupt ==
  /\ CanSpend("interrupts")
  /\ playerQueue # <<>>
  /\ Commit(interrupt(Cur))
  /\ Spend("interrupts")

\* ConnectionService.setTtsPlaybackAction
SetTtsPlaybackAction(a) ==
  /\ CanSpend("tts")
  /\ a # ttsPlaybackAction
  /\ Commit([Cur EXCEPT !.ttsPlaybackAction = a])
  /\ Spend("tts")

\* ------------------------------------------------------------- socket events
Sockets == 1..Len(socks)

Detached(w, ev) ==
  IF w \in obs.detached THEN {<<w, ev>>} ELSE {}

\* the socket connects; WebSocketConnection.onReady arms setTimeout(.., 0)
SockOpen(w) ==
  /\ mq = <<>>
  /\ socks[w].rs = "CONNECTING"
  /\ Commit([Cur EXCEPT !.socks[w].rs = "OPEN",
                        !.readyTimers =
                          IF HasListener(Cur, w, "open") THEN @ \cup {w} ELSE @])
  /\ UNCHANGED env

\* the callback of that setTimeout
ReadyTimeout(w) ==
  /\ mq = <<>>
  /\ w \in readyTimers
  /\ Commit(connectionOnReady(
       [Cur EXCEPT !.readyTimers = @ \ {w},
                   !.obs.late = @ \cup Detached(w, "ready")], w))
  /\ UNCHANGED env

InboundTypes ==
  {<<"TEXT", "NONE", FALSE>>, <<"TEXT", "NONE", TRUE>>,
   <<"AUDIO", "NONE", FALSE>>, <<"CONTROL", "INTERACTION_END", FALSE>>}

\* WebSocketConnection.onMessage with a frame {result: packet}
SockMessage(w, k, i) ==
  /\ mq = <<>>
  /\ CanSpend("inbound")
  /\ socks[w].rs = "OPEN"
  /\ HasListener(Cur, w, "message")
  /\ LET p == Pkt(k[1], k[2], i, obs.inbound + 1, k[3], obs.inbound + 1)
         marked == isText(p) /\ ~p.player /\ i \in cancelResponses
         skipped == (isAudio(p) \/ isSilence(p)) /\ i \in cancelResponses
     IN Commit(onMessage(
          [Cur EXCEPT !.obs.late = @ \cup Detached(w, "message"),
                      !.obs.inbound = @ + 1,
                      !.obs.marked = IF marked THEN @ \cup {p} ELSE @,
                      !.obs.skipped = IF skipped THEN @ \cup {p} ELSE @], p))
  /\ Spend("inbound")

ErrorMessages == {"Session s expired or invalid", "internal"}

\* WebSocketConnection.onMessage with a frame {error: ...}
SockErrorFrame(w, m) ==
  /\ mq = <<>>
  /\ CanSpend("errors")
  /\ socks[w].rs = "OPEN"
  /\ HasListener(Cur, w, "message")
  /\ Commit(onError([Cur EXCEPT !.obs.late = @ \cup Detached(w, "message")], m))
  /\ Spend("errors")

\* WebSocketConnection.onError
SockError(w) ==
  /\ mq = <<>>
  /\ CanSpend("errors")
  /\ socks[w].rs \in {"CONNECTING", "OPEN"}
  /\ HasListener(Cur, w, "error")
  /\ Commit(onError([Cur EXCEPT !.obs.late = @ \cup Detached(w, "error")],
                    "[object Event]"))
  /\ Spend("errors")

\* the peer or the network closes the socket
SockClose(w) ==
  /\ mq = <<>>
  /\ CanSpend("drops")
  /\ socks[w].rs \in {"CONNECTING", "OPEN"}
  /\ LET s1 == [Cur EXCEPT !.socks[w].rs = "CLOSED"]
     IN Commit(IF HasListener(Cur, w, "close")
                 THEN onDisconnect([s1 EXCEPT !.obs.late =
                                      @ \cup Detached(w, "disconnect")], w)
                 ELSE s1)
  /\ Spend("drops")

\* -------------------------------------------------------------------- timers
\* the idle timer armed by scheduleDisconnect
TimerFire ==
  /\ mq = <<>>
  /\ disconnectTimer
  /\ Commit(close(Cur))
  /\ UNCHANGED env

\* a tick of the resolvePacket interval of write call k that finds its
\* condition true
Tick(k) ==
  /\ mq = <<>>
  /\ k \in intervals
  /\ inworldPacket[k] \/ state = "INACTIVE"
  /\ Commit([Cur EXCEPT !.intervals = @ \ {k}, !.obs.resolved = @ \cup {k}])
  /\ UNCHANGED env

\* ---------------------------------------------------------------- microtasks
RunMicrotask ==
  /\ mq # <<>>
  /\ (Head(mq).k = "open2" /\ state = "LOADED") => Len(socks) < MaxSockets
  /\ Commit(RunJob([Cur EXCEPT !.mq = Tail(@)], Head(mq)))
  /\ UNCHANGED env

\* ------------------------------------------------ promises of collaborators
Remove(q, i) == SubSeq(q, 1, i - 1) \o SubSeq(q, i + 1, Len(q))

Settle(i, res) ==
  [Cur EXCEPT !.parked = Remove(@, i),
              !.mq = Append(@, [parked[i] EXCEPT !.res = res])]

\* generateSessionToken() resolves
TokenResolved(i) ==
  /\ parked[i].k = "est2"
  /\ Commit([Settle(i, <<[token |-> obs.tokens + 1,
                          sessionId |-> obs.tokens + 1,
                          expired |-> FALSE]>>)
               EXCEPT !.obs.tokens = @ + 1])
  /\ UNCHANGED env

\* a collaborator's promise is rejected: generateSessionToken,
\* engineService.loadScene or stopForInteraction fails
CollaboratorFails(i) ==
  /\ CanSpend("failures")
  /\ parked[i].k \in {"est2", "ls3", "ib2"}
  /\ Commit([Cur EXCEPT !.parked = Remove(@, i),
                        !.mq = Append(@, [parked[i] EXCEPT !.err = TRUE])])
  /\ Spend("failures")

\* the expiry time of the held token passes: SessionToken.isExpired turns true
TokenExpires ==
  /\ CanSpend("expiries")
  /\ session # NoSession
  /\ ~session.expired
  /\ Commit([Cur EXCEPT !.session.expired = TRUE])
  /\ Spend("expiries")

\* engineService.loadScene() resolves
SceneResolved(i) ==
  /\ parked[i].k = "ls3"
  /\ Commit(Settle(i, <<>>))
  /\ UNCHANGED env

\* the state serialization collaborator answers a snapshot request
SnapshotResolved(i) ==
  /\ parked[i].k = "save2"
  /\ Commit(Settle(i, <<[valid |-> TRUE, created |-> Len(history)]>>))
  /\ UNCHANGED env

\* a tick of recurring timer r of SessionStateService
RecurringTick(r) ==
  /\ mq = <<>>
  /\ CanSpend("periods")
  /\ ~(saver.recurring[r] /\ saver.isBlurred)
  /\ Commit(tryToSaveState(Cur))
  /\ Spend("periods")

\* the page loses the focus: the window fires blur
WindowBlur ==
  /\ mq = <<>>
  /\ CanSpend("blurs")
  /\ saver.window = "focused"
  /\ LET s == [Cur EXCEPT !.saver.window = "blurred"]
     IN Commit(IF \E l \in saver.listeners : l[1] = "blur"
                 THEN onWindowBlur(s) ELSE s)
  /\ Spend("blurs")

\* the page gets the focus back: the window fires focus
WindowFocus ==
  /\ mq = <<>>
  /\ saver.window = "blurred"
  /\ LET s == [Cur EXCEPT !.saver.window = "focused"]
     IN Commit(IF \E l \in saver.listeners : l[1] = "focus"
                 THEN onWindowFocus(s) ELSE s)
  /\ UNCHANGED env

\* the host calls SessionStateService.destroy()
Destroy ==
  /\ CanSpend("destroys")
  /\ Commit(destroy(Cur))
  /\ Spend("destroys")

\* a tick of retry timer t of SessionStateService
RetryTick(t) ==
  /\ mq = <<>>
  /\ CanSpend("polls")
  /\ saver.retries[t].live
  /\ Commit(retryAttempt(Cur, t))
  /\ Spend("polls")

\* webRtcLoopbackBiDiSession.startSession() resolves
SessionStarted(i) ==
  /\ parked[i].k = "or2"
  /\ Commit(Settle(i, <<>>))
  /\ UNCHANGED env

OfInteraction(q, j) == SelectSeq(q, LAMBDA p : p.iid = j)
NotOfInteraction(q, j) == SelectSeq(q, LAMBDA p : p.iid # j)

\* grpcAudioPlayer.stopForInteraction() resolves with the packets it stopped:
\* none (j = 0) or the queued packets of one interaction
StopResolved(i, j) ==
  /\ parked[i].k = "ib2"
  /\ j # 0 => OfInteraction(playerQueue, j) # <<>>
  /\ Commit([Settle(i, OfInteraction(playerQueue, j)) EXCEPT
               !.playerQueue = NotOfInteraction(@, j)])
  /\ UNCHANGED env

\* the playback collaborator finishes its current packet
PlayerAdvance ==
  /\ mq = <<>>
  /\ playerQueue # <<>>
  /\ Commit([Cur EXCEPT !.playerQueue = Tail(@)])
  /\ UNCHANGED env

\* --------------------------------------------------------------------- Next
\* the steps that bring a connection up, and the microtasks
Establish ==
  \/ RunMicrotask
  \/ \E i \in 1..Len(parked) : TokenResolved(i)
  \/ \E i \in 1..Len(parked) : SceneResolved(i)
  \/ \E i \in 1..Len(parked) : SessionStarted(i)
  \/ \E w \in Sockets : SockOpen(w)
  \/ \E w \in readyTimers : ReadyTimeout(w)

Stop == \E i \in 1..Len(parked), j \in {0} \cup IIDs : StopResolved(i, j)

Sends == \E t \in SendTypes, i \in IIDs : UserSend(t, i)

Messages ==
  \E w \in Sockets, k \in InboundTypes, i \in IIDs : SockMessage(w, k, i)

ErrorFrames == \E w \in Sockets, m \in ErrorMessages : SockErrorFrame(w, m)

AllConfigs == BOOLEAN \X BOOLEAN \X {0, 1}

\* ------------------------------------------------------------ sending only
SendMaxSends == 2
SendMaxErrors == 1

InitSend ==
  InitWith({c \in AllConfigs : c[1] /\ c[3] = 0},
           [NoCap EXCEPT !.sends = SendMaxSends, !.errors = SendMaxErrors])

NextSend == Establish \/ Stop \/ Sends \/ ErrorFrames

SpecSend == InitSend /\ [][NextSend]_vars

\* frames of the items that went through the write queue
QueuedFrames == {a \in 1..Len(wire) : wire[a].queued}

\* no job of a write is pending
WritesSettled ==
  /\ mq = <<>>
  /\ \A i \in 1..Len(parked) : parked[i].k # "ib2"

\* C1: items passed to WebSocketConnection.write() while the socket is not
\* OPEN are transmitted after the ready signal exactly once and in the order
\* of the write() calls, whatever beforeWriting hooks they carry: two frames
\* of queued items on one socket are in the order of their write() calls, no
\* item is transmitted twice, and once the writes started by a flush have
\* settled every flushed item is on the wire.
C1_QueueFlushedInOrder ==
  /\ \A a, b \in QueuedFrames :
       (a < b /\ wire[a].sock = wire[b].sock) => wire[a].wid < wire[b].wid
  /\ \A a, b \in QueuedFrames : wire[a].wid = wire[b].wid => a = b
  /\ WritesSettled =>
       \A k \in obs.flushed : \E a \in QueuedFrames : wire[a].wid = k

\* C4: after an auth error with auto-reconnect enabled, the producer of every
\* interaction that was in packetsInProgress when the error arrived is in the
\* send-on-open set of the open() the error handler starts.
C4_InProgressReplayedOnReopen ==
  obs.authSeen =>
    \A i \in DOMAIN obs.authPip :
      \E k \in 1..Len(obs.authSent) : obs.authSent[k].pkt = obs.authPip[i]

\* ------------------------------------------------------- inbound handling
InMaxSends == 1
InMaxOpens == 1
InMaxInbound == 2
InMaxInterrupts == 1

InitInbound ==
  InitWith({c \in AllConfigs : c[3] = 0},
           [NoCap EXCEPT !.sends = InMaxSends, !.opens = InMaxOpens,
                         !.inbound = InMaxInbound,
                         !.interrupts = InMaxInterrupts])

NextInbound ==
  \/ Establish
  \/ Stop
  \/ Sends
  \/ UserOpenManually
  \/ Messages
  \/ UserInterrupt
  \/ PlayerAdvance

SpecInbound == InitInbound /\ [][NextInbound]_vars

InHistory(p) == \E a \in 1..Len(history) : history[a] = p
Delivered(p) == \E a \in 1..Len(delivered) : delivered[a] = p

\* C3: an inbound TEXT packet whose source is not the player and whose
\* interaction has a cancel marker when it is handled is never forwarded to
\* the host onMessage and never added to history; a cancel-response naming
\* its utterance id is handed to send() (and to onInterruption) instead.
C3_CancelledTextSuppressed ==
  \A p \in obs.marked :
    /\ ~Delivered(p)
    /\ ~InHistory(p)
    /\ \E a \in 1..Len(obs.interruptions) :
         obs.interruptions[a] = [iid |-> p.iid, uids |-> <<p.uid>>]

\* a character's TEXT packet has been handled while its interaction was marked
C3_Witness == obs.marked # {}

\* C15: an interrupt() whose stopForInteraction returned packets of
\* interaction I results in exactly one CANCEL_RESPONSE send and exactly one
\* onInterruption call, both naming I and the stopped utterance ids, and in
\* a marker for I; one whose stop returned nothing sends nothing, notifies
\* nobody and leaves the markers alone.
C15_InterruptSendsOneCancel ==
  \A r \in obs.interrupted :
    IF r.res # <<>>
      THEN LET cr == [iid |-> r.res[1].iid, uids |-> UtteranceIds(r.res)]
           IN /\ r.sends = <<cr>>
              /\ r.notes = <<cr>>
              /\ r.after = r.before \cup {cr.iid}
      ELSE r.sends = <<>> /\ r.notes = <<>> /\ r.after = r.before

\* an interrupt() has stopped exactly one packet
C15_Witness == \E r \in obs.interrupted : Len(r.res) = 1

\* stopForInteraction has been called and has not answered yet
StopPending == \E a \in 1..Len(parked) : parked[a].k = "ib2"

\* C27: with the interruptions capability disabled there is no cancel marker,
\* no CANCEL_RESPONSE has been passed to send() or written to a socket,
\* stopForInteraction is not called and onInterruption has not fired.
C27_DisabledInterruptionsInert ==
  ~interruptions =>
    /\ cancelResponses = {}
    /\ obs.cancelSends = <<>>
    /\ \A a \in 1..Len(wire) : ~isCancelResponse(wire[a].pkt)
    /\ ~StopPending
    /\ obs.interruptions = <<>>

\* with the capability disabled a TEXT packet of the host has been written,
\* interrupt() has been called and a TEXT packet of the player has arrived
C27_Witness ==
  /\ ~interruptions
  /\ env.interrupts < InMaxInterrupts
  /\ \E a \in 1..Len(wire) : isText(wire[a].pkt)
  /\ \E a \in 1..Len(delivered) : isText(delivered[a]) /\ delivered[a].player

\* C5: once INTERACTION_END for an interaction has been handled, the
\* interaction is in neither packetsInProgress nor cancelResponses, and stays
\* out of both until the client sends a new TEXT or AUDIO packet with that id.
C5_EndedInteractionsStayCleared ==
  \A i \in obs.ended :
    i \notin cancelResponses /\ i \notin DOMAIN packetsInProgress

\* C6: inbound packets are processed in arrival order: every effect of the
\* handler of an earlier packet (marker change, history append, delivery to
\* onMessage) precedes every effect of the handler of a later packet.
C6_InboundInArrivalOrder ==
  \A a, b \in 1..Len(obs.effects) : a < b => obs.effects[a] <= obs.effects[b]

\* ------------------------------------------------------ closing and reopening
CloseMaxSends == 2
CloseMaxOpens == 1
CloseMaxCloses == 1

InitClose ==
  InitWith({c \in AllConfigs : c[3] = 0},
           [NoCap EXCEPT !.sends = CloseMaxSends, !.opens = CloseMaxOpens,
                         !.closes = CloseMaxCloses])

NextClose ==
  \/ Establish
  \/ Stop
  \/ Sends
  \/ UserOpen
  \/ UserOpenManually
  \/ UserClose

SpecClose == InitClose /\ [][NextClose]_vars

\* C20: whenever the state is ACTIVE the transport holds a socket that is
\* OPEN.
C20_ActiveMeansOpenTransport ==
  state = "ACTIVE" => (ws # 0 /\ socks[ws].rs = "OPEN")

\* C9: close() discards what was submitted before it: no frame on any socket
\* comes from a send() call made before a close() and is written after that
\* close().
C9_CloseDiscardsUnsent == \A a \in 1..Len(wire) : ~wire[a].late

\* ------------------------------------------------- the transport's lifecycle
TransportMaxOpens == 2
TransportMaxCloses == 2
TransportMaxDrops == 1
TransportMaxInbound == 1
TransportMaxErrors == 1

InitTransport ==
  InitWith({c \in AllConfigs : c[3] = 0},
           [NoCap EXCEPT !.opens = TransportMaxOpens,
                         !.closes = TransportMaxCloses,
                         !.drops = TransportMaxDrops,
                         !.inbound = TransportMaxInbound,
                         !.errors = TransportMaxErrors])

NextTransport ==
  \/ Establish
  \/ UserOpen
  \/ UserOpenManually
  \/ UserClose
  \/ Messages
  \/ ErrorFrames
  \/ \E w \in Sockets : SockError(w)
  \/ \E w \in Sockets : SockClose(w)

SpecTransport == InitTransport /\ [][NextTransport]_vars

\* C12: an error handler invocation with an expired-session or invalid-token
\* message and autoReconnect on clears the session and the scene, sets the
\* state to INACTIVE and calls open() exactly once; any other invocation
\* leaves state, session and scene as they were and calls no open().
C12_OnlyAuthErrorsReconnect ==
  \A r \in obs.handled :
    IF IsAuthError(r.msg) /\ autoReconnect
      THEN r.cleared /\ r.opened = 1
      ELSE r.kept /\ r.opened = 0

\* an auth error has been handled with autoReconnect on
C12_Witness ==
  \E r \in obs.handled : IsAuthError(r.msg) /\ autoReconnect /\ r.opened = 1

\* C10: a socket the transport's close() was called on has had the disconnect
\* collaborator invoked exactly once, whatever its ready state was, and none of
\* its ready, message, error or disconnect events reaches a handler afterwards.
C10_CloseDisconnectsOnceAndDetaches ==
  /\ \A w \in obs.detached : obs.disc[w] = 1
  /\ obs.late = {}

\* ------------------------------------------- the idle timer and the send wait
IdleMaxSends == 2
IdleMaxOpens == 2
IdleMaxCloses == 1

InitIdle ==
  InitWith({c \in AllConfigs : ~c[2]},
           [NoCap EXCEPT !.sends = IdleMaxSends, !.opens = IdleMaxOpens,
                         !.closes = IdleMaxCloses])

NextIdle ==
  \/ Establish
  \/ Sends
  \/ UserOpenManually
  \/ UserClose
  \/ TimerFire
  \/ \E k \in intervals : Tick(k)

SpecIdle == InitIdle /\ [][NextIdle]_vars

\* C13: a send() called by the host while the state is not ACTIVE and
\* autoReconnect is off reports the inactive-connection error and changes
\* neither the state, the wire, the write queue, the sockets nor the pending
\* work (no write, no open() is started).
C13_InactiveSendRefused ==
  [][ (env'.sends < env.sends /\ ~autoReconnect /\ state # "ACTIVE") =>
        /\ "Unable to send data due inactive connection" \in errors'
        /\ state' = state
        /\ wire' = wire
        /\ packetQueue' = packetQueue
        /\ socks' = socks
        /\ ws' = ws
        /\ inworldPacket' = inworldPacket
        /\ intervals' = intervals
        /\ mq' = mq
        /\ parked' = parked ]_vars

\* a send() has been refused
C13_Witness ==
  /\ ~autoReconnect
  /\ env.sends < IdleMaxSends
  /\ "Unable to send data due inactive connection" \in errors

\* C14: openManually() with autoReconnect on, or in a state other than
\* INACTIVE, reports a usage error and changes neither the state, the scene,
\* the sockets nor the pending work; with autoReconnect off in state INACTIVE
\* it starts exactly one open().
C14_OpenManuallyGuarded ==
  [][ UserOpenManually =>
        IF autoReconnect \/ state # "INACTIVE"
          THEN /\ errors' \cap
                    {"Impossible to open connection manually with autoReconnect enabled",
                     "Connection is already open"} # {}
               /\ state' = state
               /\ scene' = scene
               /\ session' = session
               /\ socks' = socks
               /\ ws' = ws
               /\ mq' = mq
               /\ parked' = parked
          ELSE /\ OpenCalls(mq' \o parked') = OpenCalls(mq \o parked) + 1
               /\ errors' = errors ]_vars

\* openManually() has been refused in a state other than INACTIVE
C14_Witness == "Connection is already open" \in errors

\* C7: the promise of every send() that reached write() can still resolve: it
\* has resolved already or its polling interval is still installed.
C7_SendWaitCanResolve ==
  \A k \in 1..Len(inworldPacket) : k \in obs.resolved \/ k \in intervals

\* C8: with a nonzero disconnectTimeout, an open and active connection whose
\* sends have all completed or failed has its idle timer armed.
C8_IdleTimerArmedWhileOpen ==
  ( /\ disconnectTimeout # 0
    /\ state = "ACTIVE"
    /\ ws # 0
    /\ socks[ws].rs = "OPEN"
    /\ WritesSettled ) => disconnectTimer

\* ------------------------------------- interrupting playback by a TEXT send
StopMaxSends == 1
StopMaxOpens == 2
StopMaxDrops == 1
StopMaxInbound == 1

InitStop ==
  InitWith({c \in AllConfigs : c[2] /\ c[3] = 0},
           [NoCap EXCEPT !.sends = StopMaxSends, !.opens = StopMaxOpens,
                         !.drops = StopMaxDrops, !.inbound = StopMaxInbound])

NextStop ==
  \/ Establish
  \/ Stop
  \/ Sends
  \/ UserOpenManually
  \/ Messages
  \/ \E w \in Sockets : SockClose(w)

SpecStop == InitStop /\ [][NextStop]_vars

\* C2: a TEXT frame whose send() found the connection active, and whose
\* stopForInteraction returned packets of interaction j, has a CANCEL_RESPONSE
\* frame for j before it on the wire.
C2_CancelBeforeText ==
  \A a \in 1..Len(wire) :
    \A j \in IIDs :
      ( /\ isText(wire[a].pkt)
        /\ wire[a].wid \in obs.activeSend
        /\ <<wire[a].wid, j>> \in obs.stopped )
      => \E b \in 1..(a - 1) :
           wire[b].pkt.type = "CANCEL_RESPONSE" /\ wire[b].pkt.iid = j

\* ------------------------------------------------ refreshing the session token
TokenMaxOpens == 2
TokenMaxCloses == 1
TokenMaxExpiries == 1

InitToken ==
  InitWith({c \in AllConfigs : c[3] = 0},
           [NoCap EXCEPT !.opens = TokenMaxOpens, !.closes = TokenMaxCloses,
                         !.expiries = TokenMaxExpiries])

NextToken ==
  \/ Establish
  \/ UserOpen
  \/ UserClose
  \/ TokenExpires

SpecToken == InitToken /\ [][NextToken]_vars

\* C11: every completed refresh leaves the generated token in place: its
\* credential and its expiry, with the sessionId of the previous token when
\* there was one.
C11_RefreshHoldsGeneratedToken ==
  \A r \in obs.refresh :
    /\ r.held.token = r.gen.token
    /\ r.held.expired = r.gen.expired
    /\ r.held.sessionId = IF r.prev # 0 THEN r.prev ELSE r.gen.sessionId

\* -------------------------------------------------- items supplied at open
MuteMaxSends == 2
MuteMaxTts == 1
MuteMaxDrops == 1

TtsActions == {"MUTE", "UNMUTE"}

InitMute ==
  InitWith({c \in AllConfigs : c[1] /\ c[3] = 0},
           [NoCap EXCEPT !.sends = MuteMaxSends, !.tts = MuteMaxTts,
                         !.drops = MuteMaxDrops])

NextMute ==
  \/ Establish
  \/ Stop
  \/ Sends
  \/ \E a \in TtsActions : SetTtsPlaybackAction(a)
  \/ \E w \in Sockets : SockClose(w)

SpecMute == InitMute /\ [][NextMute]_vars

\* frames of items handed to WebSocketConnection.open
OpenFrames == {a \in 1..Len(wire) : wire[a].wid = 0}

\* frames of items the ready signal of one socket took out of the queue
SameFlush(a, b) == wire[a].batch # 0 /\ wire[a].batch = wire[b].batch

\* C16: of the items one ready signal takes out of the queue, every item
\* supplied at open is transmitted before every item queued by a send, and
\* the items queued by sends are transmitted in the order of their write()
\* calls.
C16_OpenItemsAheadInOrder ==
  /\ \A a \in QueuedFrames, b \in OpenFrames : SameFlush(a, b) => b < a
  /\ \A a, b \in QueuedFrames :
       (a < b /\ SameFlush(a, b)) => wire[a].wid < wire[b].wid

\* ------------------------------------------------------- loading the scene
SceneMaxOpens == 2
SceneMaxSends == 1
SceneMaxLoads == 1
SceneMaxStates == 1

InitScene ==
  InitWith({c \in AllConfigs : ~c[2] /\ c[3] = 0},
           [NoCap EXCEPT !.opens = SceneMaxOpens, !.sends = SceneMaxSends,
                         !.loads = SceneMaxLoads, !.states = SceneMaxStates])

NextScene ==
  \/ Establish
  \/ Sends
  \/ UserOpen
  \/ UserLoadCharacters
  \/ UserGetSessionState

SpecScene == InitScene /\ [][NextScene]_vars

\* requests to engineService.loadScene that have not been answered
SceneRequests == {i \in 1..Len(parked) : parked[i].k = "ls3"}

\* C17: at most one scene-load request is outstanding, and none while a scene
\* is cached.
C17_SceneLoadedOnce ==
  /\ Cardinality(SceneRequests) <= 1
  /\ scene => SceneRequests = {}

\* ------------------------------------------------ failures of collaborators
FailMaxSends == 1
FailMaxOpens == 1
FailMaxInbound == 1
FailMaxInterrupts == 1
FailMaxStates == 1
FailMaxFailures == 1

InitFail ==
  InitWith({c \in AllConfigs : c[3] = 0},
           [NoCap EXCEPT !.sends = FailMaxSends, !.opens = FailMaxOpens,
                         !.inbound = FailMaxInbound,
                         !.interrupts = FailMaxInterrupts,
                         !.states = FailMaxStates,
                         !.failures = FailMaxFailures])

NextFail ==
  \/ Establish
  \/ Stop
  \/ Sends
  \/ UserOpen
  \/ UserGetSessionState
  \/ UserInterrupt
  \/ Messages
  \/ \E i \in 1..Len(parked) : CollaboratorFails(i)

SpecFail == InitFail /\ [][NextFail]_vars

\* C18: no public operation has rejected, and no failure of a collaborator
\* called on behalf of a send() has been dropped without a report to the
\* error handler.
C18_FailuresReported == obs.rejected = {} /\ "bw2" \notin obs.dropped

\* ------------------------------------------------------- the packet entity
MaxValue == 2
Values == 1..MaxValue

\* what a caller may hand to the constructor: a payload and a control
\* sub-type may be given whatever the type is
PacketProps ==
  [packetId : Values, routing : BOOLEAN, date : Values, type : PacketTypes,
   payload : Values, control : {"NONE", "INTERACTION_END", "UNKNOWN"}]

InitPacket ==
  /\ autoReconnect = TRUE
  /\ interruptions = FALSE
  /\ disconnectTimeout = 0
  /\ state = "INACTIVE"
  /\ session = NoSession
  /\ scene = FALSE
  /\ ttsPlaybackAction = "UNKNOWN"
  /\ cancelResponses = {}
  /\ packetsInProgress = <<>>
  /\ intervals = {}
  /\ inworldPacket = <<>>
  /\ disconnectTimer = FALSE
  /\ ws = 0
  /\ socks = <<>>
  /\ packetQueue = <<>>
  /\ readyTimers = {}
  /\ mq = <<>>
  /\ parked = <<>>
  /\ playerQueue = <<>>
  /\ history = <<>>
  /\ delivered = <<>>
  /\ wire = <<>>
  /\ errors = {}
  /\ obs = <<>>
  /\ env = NoCap
  /\ saver = NoSaver
  /\ \E props \in PacketProps :
       probe = [built |-> FALSE, props |-> props, packet |-> <<>>]

Construct ==
  /\ ~probe.built
  /\ probe' = [probe EXCEPT !.built = TRUE, !.packet = InworldPacket(probe.props)]
  /\ UNCHANGED <<autoReconnect, interruptions, disconnectTimeout, state,
                 session, scene, ttsPlaybackAction, cancelResponses,
                 packetsInProgress, intervals, inworldPacket, disconnectTimer,
                 ws, socks, packetQueue, readyTimers, mq, parked, playerQueue,
                 history, delivered, wire, errors, obs, env, saver>>

NextPacket == Construct

SpecPacket == InitPacket /\ [][NextPacket]_vars

\* the variant predicates, by the type each one answers for
Answers(p) ==
  [AUDIO |-> isAudio(p), TEXT |-> isText(p), TRIGGER |-> isTrigger(p),
   EMOTION |-> isEmotion(p), SILENCE |-> isSilence(p),
   CANCEL_RESPONSE |-> isCancelResponse(p), CONTROL |-> isControl(p)]

\* C19: a constructed packet answers true to the predicate of its type and
\* false to every other one, isInteractionEnd() is true exactly for a CONTROL
\* packet of sub-type INTERACTION_END, and packetId, routing, date and the
\* payload of its type read back as given.
C19_PredicatesAgreeWithType ==
  probe.built =>
    LET p == probe.packet
        given == probe.props
    IN /\ \A v \in PacketTypes : Answers(p)[v] = (given.type = v)
       /\ isInteractionEnd(p) =
            (given.type = "CONTROL" /\ given.control = "INTERACTION_END")
       /\ p.packetId = given.packetId
       /\ p.routing = given.routing
       /\ p.date = given.date
       /\ given.type \in PayloadTypes => p.payload = given.payload

\* a CONTROL packet of another sub-type has been constructed
C19_Witness ==
  /\ probe.built
  /\ probe.props.type = "CONTROL"
  /\ probe.props.control = "UNKNOWN"

\* ------------------------------------------------- nothing called after close
QuietMaxSends == 1
QuietMaxOpens == 1
QuietMaxCloses == 1

InitQuiet ==
  InitWith({c \in AllConfigs : c[3] = 0},
           [NoCap EXCEPT !.sends = QuietMaxSends, !.opens = QuietMaxOpens,
                         !.closes = QuietMaxCloses])

\* close() has returned and the host has called nothing since
AfterClose == env.closes < QuietMaxCloses

\* the host calls open(), openManually() and send() only before close()
NextQuiet ==
  \/ Establish
  \/ Stop
  \/ ~AfterClose /\ Sends
  \/ ~AfterClose /\ UserOpen
  \/ ~AfterClose /\ UserOpenManually
  \/ UserClose

SpecQuiet == InitQuiet /\ [][NextQuiet]_vars

\* C21: after close() has returned, and until the host calls open(),
\* openManually() or send() again, the state stays INACTIVE and no socket is
\* created.
C21_ClosedStaysClosed ==
  [][AfterClose => (state' = "INACTIVE" /\ socks' = socks)]_vars

\* ------------------------------------------------------- the state machine
\* the step changes the connection state to t
Enters(t) == state' # state /\ state' = t

\* C22: every change of the connection state follows an edge of the state
\* machine, a socket is created only on the LOADED to ACTIVATING step, and
\* open() called on an ACTIVATING or ACTIVE connection changes no state and
\* creates no socket.
C22_StateMachineEdges ==
  [][ /\ Enters("LOADED") => state \in {"LOADING", "INACTIVE"}
      /\ Enters("ACTIVATING") => state = "LOADED"
      /\ Enters("ACTIVE") => state = "ACTIVATING"
      /\ Len(socks') > Len(socks) => (state = "LOADED" /\ Enters("ACTIVATING"))
      /\ (UserOpen /\ state \in {"ACTIVATING", "ACTIVE"})
           => (state' = state /\ socks' = socks) ]_vars

\* C23: once nothing of an open() is pending any more (the failure of token
\* generation or of scene loading has been reported), the state is not
\* LOADING, the state in which loadScene returns at once.
C23_FailureLeavesNoLoading ==
  (mq = <<>> /\ parked = <<>>) => state # "LOADING"

\* ------------------------------------------------------- one logical socket
\* sockets that can still deliver events to the service
LiveSockets ==
  {w \in Sockets : socks[w].rs \in {"CONNECTING", "OPEN"} /\ socks[w].ls # {}}

\* C24: at most one socket that is CONNECTING or OPEN and has listeners
\* attached exists at any time.
C24_OneLiveSocket == Cardinality(LiveSockets) <= 1

\* --------------------------------------------------------- order on the wire
\* frames of packets the host passed to send()
SentFrames ==
  {a \in 1..Len(wire) : wire[a].wid # 0 /\ ~isCancelResponse(wire[a].pkt)}

\* C25: two frames of send() calls on one socket are on the wire in the order
\* of the calls.
C25_WireInSendOrder ==
  \A a, b \in SentFrames :
    (a < b /\ wire[a].sock = wire[b].sock) => wire[a].wid < wire[b].wid

\* ------------------------------------------------------ playback of inbound
PlaybackMaxOpens == 1
PlaybackMaxInbound == 3
PlaybackMaxInterrupts == 1

PlaybackTypes ==
  {<<"AUDIO", "NONE", FALSE>>, <<"SILENCE", "NONE", FALSE>>,
   <<"CONTROL", "INTERACTION_END", FALSE>>}

InitPlayback ==
  InitWith({c \in AllConfigs : c[3] = 0},
           [NoCap EXCEPT !.opens = PlaybackMaxOpens,
                         !.inbound = PlaybackMaxInbound,
                         !.interrupts = PlaybackMaxInterrupts])

PlaybackMessages ==
  \E w \in Sockets, k \in PlaybackTypes, i \in IIDs : SockMessage(w, k, i)

NextPlayback ==
  \/ Establish
  \/ Stop
  \/ UserOpen
  \/ PlaybackMessages
  \/ UserInterrupt

SpecPlayback == InitPlayback /\ [][NextPlayback]_vars

\* C26: the handler of an inbound AUDIO or SILENCE packet appends the packet
\* to the playback queue when its interaction has no cancel marker at that
\* moment, and leaves the playback queue alone when it has one.
C26_PlaybackOnlyUnmarked ==
  [][ \A w \in Sockets, k \in PlaybackTypes, i \in IIDs :
        (k[1] \in {"AUDIO", "SILENCE"} /\ SockMessage(w, k, i)) =>
          playerQueue' =
            IF i \in cancelResponses
              THEN playerQueue
              ELSE Append(playerQueue,
                          Pkt(k[1], k[2], i, obs.inbound + 1, k[3],
                              obs.inbound + 1)) ]_vars

\* a SILENCE packet has been handled while its interaction was marked, and an
\* AUDIO packet is queued for playback
C26_Witness ==
  /\ \E p \in obs.skipped : isSilence(p)
  /\ \E a \in 1..Len(playerQueue) : isAudio(playerQueue[a])

\* --------------------------------------------------- saving the session state
SaveMaxSends == 1
SaveMaxInbound == 1
SaveMaxPeriods == 2
SaveMaxPolls == 4

InitSave ==
  InitWith({c \in AllConfigs : c[1] /\ ~c[2] /\ c[3] = 0},
           [NoCap EXCEPT !.sends = SaveMaxSends, !.inbound = SaveMaxInbound,
                         !.periods = SaveMaxPeriods, !.polls = SaveMaxPolls])

NextSave ==
  \/ Establish
  \/ Sends
  \/ Messages
  \/ \E r \in DOMAIN saver.recurring : RecurringTick(r)
  \/ \E t \in DOMAIN saver.retries : RetryTick(t)
  \/ \E i \in 1..Len(parked) : SnapshotResolved(i)

SpecSave == InitSave /\ [][NextSave]_vars

\* C28: a retry timer polls at most DEFAULT_SESSION_STATE_MAX_ATTEMPTS times,
\* has taken the snapshot when it has polled that often, and takes it once
\* (it does not poll again after it has taken it).
C28_RetryBounded ==
  \A t \in DOMAIN saver.retries :
    LET r == saver.retries[t]
    IN /\ r.attempts <= DEFAULT_SESSION_STATE_MAX_ATTEMPTS
       /\ r.attempts >= DEFAULT_SESSION_STATE_MAX_ATTEMPTS => r.saves = 1
       /\ r.saves <= 1

\* snapshot requests of saveSessionState that have not been written yet
SaveRequests ==
  LET q == mq \o parked
  IN Cardinality({i \in 1..Len(q) :
       q[i].k = "save2"
       \/ \E a \in 1..Len(q[i].then) : q[i].then[a] = "save2"})

\* every retry timer has called saveSessionState
AllRetriesSaved ==
  \A t \in DOMAIN saver.retries : saver.retries[t].saves >= 1

\* C29: a save attempt made while a save is in flight, with an empty history
\* or with a persisted snapshot newer than the latest history entry changes
\* nothing; at most one snapshot request is pending at any time; and once no
\* retry timer and no snapshot request is outstanding the in-flight flag is
\* false.
C29_SavesExclusive ==
  [][ /\ \A r \in DOMAIN saver.recurring :
           (RecurringTick(r)
              /\ (saver.isSaving \/ history = <<>> \/ savedIsNewer(Cur)))
             => (saver' = saver /\ mq' = mq /\ parked' = parked)
      /\ SaveRequests' <= 1
      /\ (SaveRequests' = 0 /\ AllRetriesSaved') => ~saver'.isSaving ]_vars

\* C30: a poll of a retry timer that does not exhaust the attempts takes the
\* snapshot when the latest history entry is an interaction end, and also
\* when no packets are in progress.
C30_EitherConditionSaves ==
  [][ \A t \in DOMAIN saver.retries :
        (RetryTick(t)
           /\ saver.retries[t].attempts + 1 < DEFAULT_SESSION_STATE_MAX_ATTEMPTS
           /\ (lastIsInteractionEnd(Cur) \/ ~hasPacketsInProgress(Cur)))
          => saver'.retries[t].saves = saver.retries[t].saves + 1 ]_vars

\* ------------------------------------------------ focus, blur and destroy
FocusMaxOpens == 1
FocusMaxInbound == 1
FocusMaxPeriods == 2
FocusMaxPolls == 1
FocusMaxBlurs == 2
FocusMaxDestroys == 1

InitFocus ==
  InitWith({c \in AllConfigs : c[1] /\ ~c[2] /\ c[3] = 0},
           [NoCap EXCEPT !.opens = FocusMaxOpens, !.inbound = FocusMaxInbound,
                         !.periods = FocusMaxPeriods, !.polls = FocusMaxPolls,
                         !.blurs = FocusMaxBlurs,
                         !.destroys = FocusMaxDestroys])

NextFocus ==
  \/ Establish
  \/ UserOpen
  \/ Messages
  \/ \E r \in DOMAIN saver.recurring : RecurringTick(r)
  \/ \E t \in DOMAIN saver.retries : RetryTick(t)
  \/ \E i \in 1..Len(parked) : SnapshotResolved(i)
  \/ WindowBlur
  \/ WindowFocus
  \/ Destroy

SpecFocus == InitFocus /\ [][NextFocus]_vars

\* C31: while the page is unfocused no tick of a recurring timer attempts a
\* save.
C31_NoTickWhileUnfocused ==
  [][ saver.window = "blurred" =>
        ~\E r \in DOMAIN saver.recurring : RecurringTick(r) ]_vars

\* destroy() has been called
AfterDestroy == env.destroys < FocusMaxDestroys

\* C32: after destroy() no recurring and no retry timer of the service ticks,
\* no snapshot is written and the blur and focus handlers do not react.
C32_DestroyStopsEverything ==
  [][ AfterDestroy =>
        /\ ~\E r \in DOMAIN saver.recurring : RecurringTick(r)
        /\ ~\E t \in DOMAIN saver.retries : RetryTick(t)
        /\ saver'.writes = saver.writes
        /\ saver'.isBlurred = saver.isBlurred ]_vars

====
